---------------------------- MODULE Spec2Model ----------------------------
(***************************************************************************)
(* Model of pyRiskTable: the adaptive Gauss-Legendre engines               *)
(* (scenario.py), the consequence aggregator (risk.py) and the example     *)
(* cascading-hazard likelihood (example/hazard.py).                        *)
(*                                                                         *)
(* Arithmetic is exact, over integers in fixed units:                      *)
(*   intensities (IM)      in 1/IMDen   of the caller's unit               *)
(*   1-D weights           in 1/WDen2                                      *)
(*   risk values, errors   in 1/VDen(engine)                               *)
(* A float that may be +inf or nan is a record [k, v]: k is "fin", "inf"   *)
(* or "nan" and v the finite value (0 otherwise).                          *)
(***************************************************************************)
EXTENDS Integers, Sequences, FiniteSets, TLC

VARIABLES
    \* ---- generate_primary_event / generate_secondary_event ----
    engine,      \* which engine was called ("primary", "secondary", "idle")
    args,        \* the call's arguments, by parameter name
    pc,          \* position in the engine's body
    n,           \* the loop variable of `for n in range(min_order, max_order+1)`
    val, err,    \* the locals val and err
    ims, scalers,\* 1-D locals (2-D: the stacked im and scaler built at return)
    im1, im2, w1, w2, \* 2-D locals after meshgrid and ravel
    likes, cqs,  \* sampled likelihoods and consequences
    calls,       \* every invocation of a caller-supplied function, in order
    tried,       \* the orders evaluated so far, each with its candidate and error
    warned,      \* the warnings emitted: [order, err]
    raised,      \* the exception that ended the call, or "none"
    result,      \* the returned tuple, or "none"
    \* ---- expected_consequence ----
    ec_pc,            \* position in expected_consequence
    im,               \* its argument im: a scalar or a 1-D array
    fragility_funcs,  \* its argument fragility_funcs: [none, v]
    cq_array,         \* its argument cq_array: [none, v]
    cdf_array, prob_array, \* its locals
    risk,             \* the value returned, or NoValue
    evals,            \* the fragility-curve evaluations made, in order
    ec_raised,        \* the exception that ended the call, or "none"
    \* ---- example/hazard.py and second_risk_integrand ----
    hz_pc,            \* position in the called function and its callees
    hz_fn,            \* the function called
    hz_hazard_func,   \* second_risk_integrand's argument hazard_func
    hz_im1, hz_im2,   \* the arguments im1 and im2
    hz_stack,         \* the callers waiting for a callee's value
    d_im1, d_im2, scalar_input, \* locals of d_second_hazard_curve
    pdf_IM1, p_second_occur, pdf_IM2, \* locals of im2d_likelihood
    risk_im, like_im, \* locals of second_risk_integrand
    hz_out,           \* the value returned, or NoArray
    hz_raised,        \* the exception that ended the call, or "none"
    \* ---- a caller that calls an engine twice ----
    earlier           \* what the caller's earlier call did, or NoCall

engineVars == <<engine, args, pc, n, val, err, ims, scalers, im1, im2, w1, w2,
                likes, cqs, calls, tried, warned, raised, result>>

ecVars == <<ec_pc, im, fragility_funcs, cq_array, cdf_array, prob_array, risk,
            evals, ec_raised>>

hzVars == <<hz_pc, hz_fn, hz_hazard_func, hz_im1, hz_im2, hz_stack, d_im1, d_im2,
            scalar_input, pdf_IM1, p_second_occur, pdf_IM2, risk_im, like_im,
            hz_out, hz_raised>>

callerVars == <<earlier>>

vars == <<engineVars, ecVars, hzVars, callerVars>>

\* what a call of one entry point leaves alone
notEngine == <<ecVars, hzVars, callerVars>>
notEC == <<engineVars, hzVars, callerVars>>
notHz == <<engineVars, ecVars, callerVars>>

---------------------------------------------------------------------------
(* Bounds and units *)

\* Largest quadrature order a call may ask for.
MaxOrder == 3

\* nodes come in 1/XDen; mapped intensities in 1/IMDen = 1/(2*XDen)
XDen == 10 * 10
IMDen == 2 * XDen
\* rule weights come in 1/WDen; rescaled weights in 1/WDen2 = 1/(2*WDen)
WDen == 2 * 9
WDen2 == 2 * WDen

Abs(x) == IF x < 0 THEN -x ELSE x

RECURSIVE SumSeq(_)
SumSeq(s) == IF s = <<>> THEN 0 ELSE Head(s) + SumSeq(Tail(s))

\* floats that may be infinite
Fin(x) == [k |-> "fin", v |-> x]
PosInf == [k |-> "inf", v |-> 0]
NaN == [k |-> "nan", v |-> 0]

\* abs(x - y) on such floats: inf - inf is nan, inf - finite is inf
FAbsDiff(x, y) ==
    IF x.k = "nan" \/ y.k = "nan" THEN NaN
    ELSE IF x.k = "inf" /\ y.k = "inf" THEN NaN
    ELSE IF x.k = "inf" \/ y.k = "inf" THEN PosInf
    ELSE Fin(Abs(x.v - y.v))

---------------------------------------------------------------------------
(* scipy.special.roots_legendre(n): the n-point rule on [-1, 1].  Nodes in  *)
(* 1/XDen, weights in 1/WDen.  Orders 1..3 have rational weights and are    *)
(* exact in the weights; nodes, and the weights of higher orders, are       *)
(* rounded to the table's resolution.                                       *)
GLNodes(order) ==
    CASE order = 1 -> <<0>>
      [] order = 2 -> <<-58, 58>>
      [] order = 3 -> <<-77, 0, 77>>
      [] order = 4 -> <<-86, -34, 34, 86>>
      [] order = 5 -> <<-91, -54, 0, 54, 91>>

GLWeights(order) ==
    CASE order = 1 -> <<36>>
      [] order = 2 -> <<18, 18>>
      [] order = 3 -> <<10, 16, 10>>
      [] order = 4 -> <<6, 12, 12, 6>>
      [] order = 5 -> <<4, 9, 10, 9, 4>>

roots_legendre(order) == [x |-> GLNodes(order), w |-> GLWeights(order)]

\* ims = (b-a)*(x+1)/2.0+a, in 1/IMDen
MapPoints(lo, hi, x) ==
    [i \in 1..Len(x) |-> (hi - lo) * (x[i] + XDen) + IMDen * lo]

\* a faulty variant of ScaleWeights: the Jacobian's 1/2 is dropped
ScaleWeights_NoHalf(lo, hi, w) ==
    [i \in 1..Len(w) |-> 2 * (hi - lo) * w[i]]

\* scalers = (b-a)/2.0 * w, in 1/WDen2
ScaleWeights(lo, hi, w) ==
    [i \in 1..Len(w) |-> (hi - lo) * w[i]]

\* a faulty variant of Meshgrid: both matrices run along the same axis
Meshgrid_Diagonal(x, y) ==
    <<[i \in 1..Len(y) |-> [j \in 1..Len(x) |-> x[j]]],
      [i \in 1..Len(y) |-> [j \in 1..Len(x) |-> y[j]]]>>

\* np.meshgrid(x, y) (indexing 'xy'): two Len(y)-by-Len(x) matrices,
\* X[i][j] = x[j] and Y[i][j] = y[i]
Meshgrid(x, y) ==
    <<[i \in 1..Len(y) |-> [j \in 1..Len(x) |-> x[j]]],
      [i \in 1..Len(y) |-> [j \in 1..Len(x) |-> y[i]]]>>

\* ndarray.ravel() of a matrix, row-major
RECURSIVE Ravel(_)
Ravel(m) == IF m = <<>> THEN <<>> ELSE Head(m) \o Ravel(Tail(m))

\* np.vstack([u, v]).T : one row <<u[k], v[k]>> per entry
VStackT(u, v) == [k \in 1..Len(u) |-> <<u[k], v[k]>>]


---------------------------------------------------------------------------
(* Caller-supplied functions.  The engines only ever call them; a function  *)
(* is named by a tag and "None" is an omitted argument.  Each accepts a     *)
(* scalar or an array and works elementwise on an array.                    *)

\* a kink inside every domain used below, at IM = 3/4
KinkIM == (3 * IMDen) \div 4

\* likelihood_func(im) of the 1-D engine
Likelihood1(f, x) ==
    CASE f = "const" -> 1
      [] f = "kink"  -> IF x < KinkIM THEN 0 ELSE 2

\* likelihood_func(im1, im2) of the 2-D engine
Likelihood2(f, x1, x2) ==
    CASE f = "const" -> 1
      [] f = "kink"  -> IF x2 < x1 THEN 1 ELSE 0

\* consequence_func(im)
Consequence(f, x) ==
    CASE f = "const"  -> 1
      [] f = "linear" -> x
      [] f = "kink"   -> IF x < KinkIM THEN 0 ELSE 1

\* a value is a scalar or a 1-D array; a scalar keeps its one number in v
Scalar(x) == [kind |-> "scalar", v |-> <<x>>]
Array(xs) == [kind |-> "array", v |-> xs]

\* one invocation of a caller function, as the function sees it
Call(fn, arguments) == [fn |-> fn, arg |-> arguments]

\* The invocations np.vectorize(f) makes on 1-D sample arrays (one array per
\* parameter of f): without otypes it calls f on the first elements to learn
\* the output type, then once per element.
VectorizeCalls(fn, arrays) ==
    LET at(k) == [p \in 1..Len(arrays) |-> Scalar(arrays[p][k])]
    IN  <<Call(fn, at(1))>> \o [k \in 1..Len(arrays[1]) |-> Call(fn, at(k))]

\* The invocation made when the function is handed the sample arrays whole.
WholeCall(fn, arrays) ==
    <<Call(fn, [p \in 1..Len(arrays) |-> Array(arrays[p])])>>

\* likelihood_vfunc / consequence_vfunc of generate_primary_event: the
\* invocations behind one evaluation on the sample arrays
AdapterCalls(fn, vec, arrays) ==
    IF vec THEN WholeCall(fn, arrays) ELSE VectorizeCalls(fn, arrays)

\* generate_secondary_event builds the same adapters but calls
\* consequence_func and likelihood_func themselves
DirectCalls(fn, vec, arrays) == WholeCall(fn, arrays)

---------------------------------------------------------------------------
(* The stopping rule: err < tol or err < rtol*abs(val).  err and val are in *)
(* 1/vden, tol is [k, num, den] (k = "inf" for np.inf) and rtol [num, den]. *)

VDen(e) == IF e = "primary" THEN WDen2 ELSE WDen2 * WDen2

ErrLtTol(e, t, vden) ==
    /\ e.k = "fin"
    /\ \/ t.k = "inf"
       \/ e.v * t.den < t.num * vden

ErrLtRtol(e, rt, v) ==
    /\ e.k = "fin"
    /\ v.k = "fin"
    /\ e.v * rt.den < rt.num * Abs(v.v)

\* a faulty variant of StopRule: <= for <
StopRule_NonStrict(e, v, t, rt, vden) ==
    /\ e.k = "fin"
    /\ \/ t.k = "inf"
       \/ e.v * t.den <= t.num * vden
       \/ e.v * rt.den <= rt.num * Abs(v.v)

\* if err < tol or err < rtol*abs(val): break
StopRule(e, v, t, rt, vden) == ErrLtTol(e, t, vden) \/ ErrLtRtol(e, rt, v)

\* a faulty variant of RiskSum1: the consequences are left out
RiskSum1_NoConsequence(s, l, q) == SumSeq([k \in 1..Len(s) |-> s[k] * l[k]])

\* np.sum(scalers*likes*cqs)
RiskSum1(s, l, q) == SumSeq([k \in 1..Len(s) |-> s[k] * l[k] * q[k]])
\* np.sum(w1*w2*likes*cqs)
RiskSum2(u, v, l, q) == SumSeq([k \in 1..Len(u) |-> u[k] * v[k] * l[k] * q[k]])

\* risk_from_primary_scenarios: risk = np.sum(likes*cqs*scalers) over the
\* rows of the exported table
risk_from_primary_scenarios(l, q, s) ==
    SumSeq([k \in 1..Len(l) |-> l[k] * q[k] * s[k]])

---------------------------------------------------------------------------
(* Calls *)

Domains1 == {<<0, 1>>, <<0, 2>>, <<1, 3>>}
Domains2 == {<<0, 1>>, <<1, 3>>}
Tols == {[k |-> "fin", num |-> 0, den |-> 1], [k |-> "fin", num |-> 1, den |-> 2],
         [k |-> "inf", num |-> 0, den |-> 1]}
Rtols == {[num |-> 0, den |-> 1], [num |-> 1, den |-> 10]}
LikelihoodFuncs == {"None", "const", "kink"}
ConsequenceFuncs == {"None", "const", "linear", "kink"}

Unbound == [k |-> "unbound", v |-> 0]

EngineArgs(e) ==
    [a : {0}, b : {1}, c : {0}, d : {1},
     likelihood_func : LikelihoodFuncs, vec_likelihood : BOOLEAN,
     consequence_func : ConsequenceFuncs, vec_consequence : BOOLEAN,
     tol : Tols, rtol : Rtols,
     min_order : 1..MaxOrder, max_order : 0..MaxOrder]

WithDomain(r, ab, cd) ==
    [r EXCEPT !.a = ab[1], !.b = ab[2], !.c = cd[1], !.d = cd[2]]

InitEngine ==
    /\ engine \in {"primary", "secondary"}
    /\ \E r \in EngineArgs(engine), ab \in Domains1, cd \in Domains2 :
          args = WithDomain(r, ab, IF engine = "primary" THEN <<0, 1>> ELSE cd)
    /\ pc = "start"
    /\ n = 0
    /\ val = Unbound /\ err = Unbound
    /\ ims = <<>> /\ scalers = <<>>
    /\ im1 = <<>> /\ im2 = <<>> /\ w1 = <<>> /\ w2 = <<>>
    /\ likes = <<>> /\ cqs = <<>>
    /\ calls = <<>> /\ tried = <<>> /\ warned = <<>>
    /\ raised = "none" /\ result = "none"

\* a faulty variant of MissingArgument: consequence_func is not checked
MissingArgument_NoConsequenceCheck(r) ==
    IF r.likelihood_func = "None"
    THEN "AssertionError: Must provide likelihood_func"
    ELSE "none"

\* assert likelihood_func is not None, "Must provide likelihood_func"
\* assert consequence_func is not None, "Must provide consequence_func"
MissingArgument(r) ==
    IF r.likelihood_func = "None"
    THEN "AssertionError: Must provide likelihood_func"
    ELSE IF r.consequence_func = "None"
    THEN "AssertionError: Must provide consequence_func"
    ELSE "none"

\* the two asserts, the adapters, and val = err = np.inf
CheckArgs ==
    /\ pc = "start"
    /\ IF MissingArgument(args) # "none"
       THEN /\ raised' = MissingArgument(args)
            /\ pc' = "raised"
            /\ UNCHANGED <<val, err>>
       ELSE /\ val' = PosInf /\ err' = PosInf
            /\ pc' = "loop"
            /\ UNCHANGED raised
    /\ UNCHANGED <<engine, args, n, ims, scalers, im1, im2, w1, w2, likes, cqs,
                   calls, tried, warned, result>>
    /\ UNCHANGED notEngine

\* the next value range(min_order, max_order+1) yields
NextOrder == IF tried = <<>> THEN args.min_order ELSE n + 1

\* a faulty variant of InRange: the range runs one order too far
InRange_OnePastMax(order, lo, hi) == order < hi + 2

\* whether range(min_order, max_order+1) still yields `order`
InRange(order, lo, hi) == order < hi + 1

\* the loop has another pass to make / has run out of orders
AtLoopBody == pc = "loop" /\ InRange(NextOrder, args.min_order, args.max_order)
AtLoopElse == pc = "loop" /\ ~InRange(NextOrder, args.min_order, args.max_order)

\* a faulty variant of ShouldWarn: a single order warns too
ShouldWarn_NonStrict(lo, hi) == hi >= lo

\* a faulty variant of ShouldWarn: off by one
ShouldWarn_OffByOne(lo, hi) == hi > lo + 1

\* if max_order > min_order: warnings.warn(...)
ShouldWarn(lo, hi) == hi > lo

\* the tail of a loop body: err, val, and the break
Converge(newval) ==
    LET e == FAbsDiff(Fin(newval), val)
        v == Fin(newval)
    IN  /\ err' = e
        /\ val' = v
        /\ tried' = Append(tried, [order |-> NextOrder, val |-> v, err |-> e])
        /\ pc' = IF StopRule(e, v, args.tol, args.rtol, VDen(engine))
                 THEN "break" ELSE "loop"

\* one pass of the loop body of generate_primary_event
PrimaryIter ==
    /\ engine = "primary" /\ AtLoopBody
    /\ LET r == roots_legendre(NextOrder)
           x == MapPoints(args.a, args.b, r.x)
           s == ScaleWeights(args.a, args.b, r.w)
           l == [k \in 1..Len(x) |-> Likelihood1(args.likelihood_func, x[k])]
           q == [k \in 1..Len(x) |-> Consequence(args.consequence_func, x[k])]
       IN  /\ n' = NextOrder
           /\ ims' = x /\ scalers' = s
           /\ likes' = l /\ cqs' = q
           /\ calls' = calls
                 \o AdapterCalls("likelihood_func", args.vec_likelihood, <<x>>)
                 \o AdapterCalls("consequence_func", args.vec_consequence, <<x>>)
           /\ Converge(RiskSum1(s, l, q))
    /\ UNCHANGED <<engine, args, im1, im2, w1, w2, warned, raised, result>>
    /\ UNCHANGED notEngine

\* one pass of the loop body of generate_secondary_event
SecondaryIter ==
    /\ engine = "secondary" /\ AtLoopBody
    /\ LET r == roots_legendre(NextOrder)
           g == Meshgrid(MapPoints(args.a, args.b, r.x), MapPoints(args.c, args.d, r.x))
           x1 == Ravel(g[1])
           x2 == Ravel(g[2])
           h == Meshgrid(ScaleWeights(args.a, args.b, r.w), ScaleWeights(args.c, args.d, r.w))
           s1 == Ravel(h[1])
           s2 == Ravel(h[2])
           q == [k \in 1..Len(x2) |-> Consequence(args.consequence_func, x2[k])]
           l == [k \in 1..Len(x1) |-> Likelihood2(args.likelihood_func, x1[k], x2[k])]
       IN  /\ n' = NextOrder
           /\ im1' = x1 /\ im2' = x2 /\ w1' = s1 /\ w2' = s2
           /\ likes' = l /\ cqs' = q
           /\ calls' = calls
                 \o DirectCalls("consequence_func", args.vec_consequence, <<x2>>)
                 \o DirectCalls("likelihood_func", args.vec_likelihood, <<x1, x2>>)
           /\ Converge(RiskSum2(s1, s2, l, q))
    /\ UNCHANGED <<engine, args, ims, scalers, warned, raised, result>>
    /\ UNCHANGED notEngine

\* the loop's else clause: the range is exhausted without a break
LoopElse ==
    /\ AtLoopElse
    /\ warned' = IF ShouldWarn(args.min_order, args.max_order)
                 THEN Append(warned, [order |-> args.max_order, err |-> err])
                 ELSE warned
    /\ pc' = "return"
    /\ UNCHANGED <<engine, args, n, val, err, ims, scalers, im1, im2, w1, w2,
                   likes, cqs, calls, tried, raised, result>>
    /\ UNCHANGED notEngine

\* a faulty variant of Break: break falls into the loop's else clause
Break_IntoElse ==
    /\ pc = "break"
    /\ warned' = IF ShouldWarn(args.min_order, args.max_order)
                 THEN Append(warned, [order |-> args.max_order, err |-> err])
                 ELSE warned
    /\ pc' = "return"
    /\ UNCHANGED <<engine, args, n, val, err, ims, scalers, im1, im2, w1, w2,
                   likes, cqs, calls, tried, raised, result>>
    /\ UNCHANGED notEngine

\* break leaves the loop past its else clause
Break ==
    /\ pc = "break"
    /\ pc' = "return"
    /\ UNCHANGED <<engine, args, n, val, err, ims, scalers, im1, im2, w1, w2,
                   likes, cqs, calls, tried, warned, raised, result>>
    /\ UNCHANGED notEngine

\* return ims, scalers, likes, cqs, val, err (2-D: im and scaler are stacked
\* first).  With an empty range the loop's locals were never bound.
Return ==
    /\ pc = "return"
    /\ IF tried = <<>>
       THEN /\ raised' = "UnboundLocalError"
            /\ pc' = "raised"
            /\ UNCHANGED <<ims, scalers, result>>
       ELSE /\ ims' = IF engine = "primary" THEN ims ELSE VStackT(im1, im2)
            /\ scalers' = IF engine = "primary" THEN scalers ELSE VStackT(w1, w2)
            /\ result' = [ims |-> ims', scalers |-> scalers', likes |-> likes,
                          cqs |-> cqs, val |-> val, err |-> err]
            /\ pc' = "done"
            /\ UNCHANGED raised
    /\ UNCHANGED <<engine, args, n, val, err, im1, im2, w1, w2, likes, cqs,
                   calls, tried, warned>>
    /\ UNCHANGED notEngine

---------------------------------------------------------------------------
(* expected_consequence (risk.py).  Intensities are levels 0..MaxIM, a      *)
(* fragility curve is a function from levels to probabilities in 1/PDen,    *)
(* consequences are in percent.                                             *)

\* the highest intensity level
MaxIM == 1
\* probabilities come in halves: 0, 1/2 and 1 = PDen/PDen
ProbLevels == {0, 1, 2}
PDen == CHOOSE p \in ProbLevels : \A q \in ProbLevels : q <= p
\* the number of damage states (example/constants.py)
NDS == 4
\* CQ_S, CQ_M, CQ_E, CQ_C (example/constants.py), in percent
CqRatios == <<12, 19, 48, 100>>

\* an optional argument: omitted (None) or given
None == [none |-> TRUE, v |-> <<>>]
Some(x) == [none |-> FALSE, v |-> x]
NoValue == [kind |-> "none", v |-> <<>>]

\* fragility curves: probabilities in [0, 1], non-decreasing in intensity
Curves ==
    {f \in [0..MaxIM -> ProbLevels] : \A x \in 0..(MaxIM - 1) : f[x] <= f[x + 1]}

\* the lists of k fragility curves
RECURSIVE CurveLists(_)
CurveLists(k) ==
    IF k = 0 THEN {<<>>}
    ELSE {Append(l, f) : l \in CurveLists(k - 1), f \in Curves}

\* the values of im: a scalar, or an array of one or two samples
ImInputs ==
    {Scalar(x) : x \in 0..MaxIM}
        \cup {Array(<<x>>) : x \in 0..MaxIM}
        \cup {Array(<<x, y>>) : x \in 0..MaxIM, y \in 0..MaxIM}

InitExpectedConsequence ==
    /\ ec_pc = "start"
    /\ im \in ImInputs
    /\ fragility_funcs \in {None} \cup {Some(l) : l \in UNION {CurveLists(k) : k \in 0..NDS}}
    /\ cq_array \in {None} \cup {Some(SubSeq(CqRatios, 1, k)) : k \in 0..NDS}
    /\ cdf_array = <<>> /\ prob_array = <<>> /\ risk = NoValue
    /\ evals = <<>> /\ ec_raised = "none"

\* assert fragility_funcs is not None, "Must provide a list of fragility functions"
\* assert len(fragility_funcs) == len(cq_array), "... must have the same length"
\* (len(None) raises TypeError before the comparison is made)
ArgumentError(funcs, cq) ==
    IF funcs.none
    THEN "AssertionError: Must provide a list of fragility functions"
    ELSE IF cq.none
    THEN "TypeError: object of type 'NoneType' has no len()"
    ELSE IF Len(funcs.v) # Len(cq.v)
    THEN "AssertionError: fragility_funcs and cq_array must have the same length"
    ELSE "none"

\* func(im): a curve works elementwise, a scalar gives a scalar
CurveAt(f, x) == [kind |-> x.kind, v |-> [j \in 1..Len(x.v) |-> f[x.v[j]]]]

\* x - y of two equal shapes
VSub(x, y) == [kind |-> x.kind, v |-> [j \in 1..Len(x.v) |-> x.v[j] - y.v[j]]]

\* -x
VNeg(x) == [kind |-> x.kind, v |-> [j \in 1..Len(x.v) |-> 0 - x.v[j]]]

\* 0 broadcast to the shape of x
ZeroLike(x) == [kind |-> x.kind, v |-> [j \in 1..Len(x.v) |-> 0]]

\* a faulty variant of DiffAppend0: the 0 is prepended
DiffAppend0_Prepend(rows) ==
    [k \in 1..Len(rows) |->
        VSub(rows[k], IF k = 1 THEN ZeroLike(rows[k]) ELSE rows[k - 1])]

\* np.diff(rows, axis=0, append=0): row k+1 minus row k, with a row of zeros
\* after the last
DiffAppend0(rows) ==
    [k \in 1..Len(rows) |->
        VSub(IF k < Len(rows) THEN rows[k + 1] ELSE ZeroLike(rows[k]), rows[k])]

\* a faulty variant of TransposeDot: the consequences are taken in reverse
TransposeDot_Reversed(rows, cq) ==
    IF rows = <<>> THEN Scalar(0)
    ELSE [kind |-> rows[1].kind,
          v |-> [j \in 1..Len(rows[1].v) |->
                   SumSeq([k \in 1..Len(rows) |-> rows[k].v[j] * cq[Len(cq) + 1 - k]])]]

\* rows.T @ cq: a scalar for scalar rows (and for no rows), else one value
\* per column
TransposeDot(rows, cq) ==
    IF rows = <<>> THEN Scalar(0)
    ELSE [kind |-> rows[1].kind,
          v |-> [j \in 1..Len(rows[1].v) |->
                   SumSeq([k \in 1..Len(rows) |-> rows[k].v[j] * cq[k]])]]

\* the two asserts
ECCheck ==
    /\ ec_pc = "start"
    /\ ec_raised' = ArgumentError(fragility_funcs, cq_array)
    /\ ec_pc' = IF ec_raised' = "none" THEN "evaluate" ELSE "raised"
    /\ UNCHANGED <<im, fragility_funcs, cq_array, cdf_array, prob_array, risk, evals>>
    /\ UNCHANGED notEC

\* cdf_array = np.array([func(im) for func in fragility_funcs])
ECEvaluate ==
    /\ ec_pc = "evaluate"
    /\ cdf_array' = [k \in 1..Len(fragility_funcs.v) |-> CurveAt(fragility_funcs.v[k], im)]
    /\ evals' = [k \in 1..Len(fragility_funcs.v) |-> [curve |-> k, arg |-> im]]
    /\ ec_pc' = "diff"
    /\ UNCHANGED <<im, fragility_funcs, cq_array, prob_array, risk, ec_raised>>
    /\ UNCHANGED notEC

\* prob_array = -np.diff(cdf_array, axis=0, append=0)
ECDiff ==
    /\ ec_pc = "diff"
    /\ prob_array' = LET d == DiffAppend0(cdf_array)
                     IN  [k \in 1..Len(d) |-> VNeg(d[k])]
    /\ ec_pc' = "dot"
    /\ UNCHANGED <<im, fragility_funcs, cq_array, cdf_array, risk, evals, ec_raised>>
    /\ UNCHANGED notEC

\* risk = prob_array.T @ cq_array; return risk
ECReturn ==
    /\ ec_pc = "dot"
    /\ risk' = TransposeDot(prob_array, cq_array.v)
    /\ ec_pc' = "done"
    /\ UNCHANGED <<im, fragility_funcs, cq_array, cdf_array, prob_array, evals, ec_raised>>
    /\ UNCHANGED notEC

---------------------------------------------------------------------------
(* The cascading-hazard example: d_second_hazard_curve and im2d_likelihood  *)
(* (example/hazard.py) and second_risk_integrand (risk.py).                 *)
(*                                                                          *)
(* An ndarray is [shape, data]: shape <<>> for a 0-d array (a scalar),      *)
(* <<n>> for a 1-D array, <<1, m>> for a scalar_input array im2 after       *)
(* [np.newaxis]; data holds the elements in row-major order.  PGA (im1) is  *)
(* in multiples of PGA_trigger[sc], PGD (im2) in levels 0..MaxIM.  A        *)
(* density or probability is 0 where the code yields 0 and 1 where it       *)
(* yields a positive number.                                                *)

\* the longest array passed as im1 or im2
MaxLen == 2

Nd0(x) == [shape |-> <<>>, data |-> <<x>>]
Nd1(xs) == [shape |-> <<Len(xs)>>, data |-> xs]
NoArray == [shape |-> <<>>, data |-> <<>>]

\* a[np.newaxis]
NewAxis(a) == [shape |-> <<1>> \o a.shape, data |-> a.data]

\* the number of elements of one a[i]
RowLen(a) == IF Len(a.shape) = 2 THEN a.shape[2] ELSE 1

\* a[i], from 1
Row(a, i) ==
    [shape |-> Tail(a.shape),
     data |-> SubSeq(a.data, (i - 1) * RowLen(a) + 1, i * RowLen(a))]

\* f applied to every element
NdMap(F(_), a) == [shape |-> a.shape, data |-> [i \in 1..Len(a.data) |-> F(a.data[i])]]

\* the shape two shapes broadcast to, or <<0>> where numpy raises ValueError
BroadcastShape(s, t) ==
    IF s = <<>> THEN t
    ELSE IF t = <<>> THEN s
    ELSE IF s = t THEN s
    ELSE IF s = <<1>> THEN t
    ELSE IF t = <<1>> THEN s
    ELSE <<0>>

\* a * b with broadcasting (of 0-d and 1-D arrays)
NdMul(a, b) ==
    LET sh == BroadcastShape(a.shape, b.shape)
        len == IF sh = <<>> THEN 1 ELSE sh[1]
        at(x, i) == IF Len(x.data) = 1 THEN x.data[1] ELSE x.data[i]
    IN  [shape |-> sh, data |-> [i \in 1..len |-> at(a, i) * at(b, i)]]

\* stats.lognorm.pdf(x, ...): 0 at x <= 0, positive above
LognormPdf(x) == IF x <= 0 THEN 0 ELSE 1

\* hazard_likelihood(im): RATE * lognorm.pdf(im, ...)
HazardLikelihood(x) == LognormPdf(x)

\* second_probability(im1) for sc = LQ_CLASS = 5: 9.09*a - 0.82 clipped to
\* [0, 1], which is 0 up to a = PGA_trigger and positive from twice that
SecondProbability(x) == IF x <= 1 THEN 0 ELSE 1

\* PGD_standard of x = im1 / PGA_trigger[sc]
PGDStandard(x) ==
    IF x < 1 THEN 0
    ELSE IF x < 2 THEN 12 * x - 12
    ELSE IF x < 3 THEN 18 * x - 24
    ELSE 70 * x - 180

\* the fragility curves and consequences second_risk_integrand is called with
RiskCurves == <<[x \in 0..MaxIM |-> IF x = 0 THEN 0 ELSE PDen]>>
RiskCq == <<100>>

\* expected_consequence(im2, fragility_funcs, cq_array) on an ndarray
ExpectedConsequenceOf(a) ==
    LET x == [kind |-> "array", v |-> a.data]
        cdf == [k \in 1..Len(RiskCurves) |-> CurveAt(RiskCurves[k], x)]
        d == DiffAppend0(cdf)
        r == TransposeDot([k \in 1..Len(d) |-> VNeg(d[k])], RiskCq)
    IN  [shape |-> a.shape, data |-> r.v]

PGALevels == {0, 2}
PGDLevels == 0..MaxIM

\* sequences over S of length 1..k
RECURSIVE SeqsUpTo(_, _)
SeqsUpTo(S, k) ==
    IF k = 0 THEN {}
    ELSE LET shorter == SeqsUpTo(S, k - 1)
         IN  {<<x>> : x \in S} \cup shorter \cup {Append(q, x) : q \in shorter, x \in S}

\* a scalar or a 1-D array over S
NdInputs(S) == {Nd0(x) : x \in S} \cup {Nd1(q) : q \in SeqsUpTo(S, MaxLen)}

InitHazard ==
    /\ hz_pc = "start"
    /\ hz_fn \in {"d_second_hazard_curve", "im2d_likelihood", "second_risk_integrand"}
    /\ hz_hazard_func \in IF hz_fn = "second_risk_integrand"
                          THEN {"None", "im2d_likelihood"} ELSE {"None"}
    /\ hz_im1 \in NdInputs(PGALevels)
    /\ hz_im2 \in NdInputs(PGDLevels)
    /\ hz_stack = <<>>
    /\ d_im1 = NoArray /\ d_im2 = NoArray /\ scalar_input = FALSE
    /\ pdf_IM1 = NoArray /\ p_second_occur = NoArray /\ pdf_IM2 = NoArray
    /\ risk_im = NoArray /\ like_im = NoArray
    /\ hz_out = NoArray /\ hz_raised = "none"

\* second_risk_integrand up to its call of hazard_func:
\* assert hazard_func is not None; risk_im = expected_consequence(im2, ...)
RiskEnter ==
    /\ hz_pc = "start" /\ hz_fn = "second_risk_integrand"
    /\ IF hz_hazard_func = "None"
       THEN /\ hz_raised' = "AssertionError: Must provide hazard_func"
            /\ hz_pc' = "raised"
            /\ UNCHANGED <<risk_im, hz_stack>>
       ELSE /\ risk_im' = ExpectedConsequenceOf(hz_im2)
            /\ hz_stack' = <<"second_risk_integrand">>
            /\ hz_pc' = "im2d_likelihood"
            /\ UNCHANGED hz_raised
    /\ UNCHANGED <<hz_fn, hz_hazard_func, hz_im1, hz_im2, d_im1, d_im2, scalar_input,
                   pdf_IM1, p_second_occur, pdf_IM2, like_im, hz_out>>
    /\ UNCHANGED notHz

\* im2d_likelihood up to its call of d_second_hazard_curve:
\* pdf_IM1 = hazard_likelihood(im1); p_second_occur = second_probability(im1, ...)
Im2dEnter ==
    /\ \/ hz_pc = "start" /\ hz_fn = "im2d_likelihood"
       \/ hz_pc = "im2d_likelihood"
    /\ pdf_IM1' = NdMap(HazardLikelihood, hz_im1)
    /\ p_second_occur' = NdMap(SecondProbability, hz_im1)
    /\ hz_stack' = Append(hz_stack, "im2d_likelihood")
    /\ hz_pc' = "d_second_hazard_curve"
    /\ UNCHANGED <<hz_fn, hz_hazard_func, hz_im1, hz_im2, d_im1, d_im2, scalar_input,
                   pdf_IM2, risk_im, like_im, hz_out, hz_raised>>
    /\ UNCHANGED notHz

\* assert len(im1) == len(im2), "primary and secondary IM must have the same
\* length": len() of a 0-d array raises TypeError
LengthError(a1, a2) ==
    IF a1.shape = <<>> \/ a2.shape = <<>>
    THEN "TypeError: len() of unsized object"
    ELSE IF a1.shape[1] # a2.shape[1]
    THEN "AssertionError: primary and secondary IM must have the same length"
    ELSE "none"

\* d_second_hazard_curve up to its assert: np.asarray, and for a 0-d im1
\* im1 = im1[np.newaxis]; im2 = im2[np.newaxis]; scalar_input = True
DSecondCheck ==
    /\ \/ hz_pc = "start" /\ hz_fn = "d_second_hazard_curve"
       \/ hz_pc = "d_second_hazard_curve"
    /\ scalar_input' = (hz_im1.shape = <<>>)
    /\ d_im1' = IF scalar_input' THEN NewAxis(hz_im1) ELSE hz_im1
    /\ d_im2' = IF scalar_input' THEN NewAxis(hz_im2) ELSE hz_im2
    /\ hz_raised' = LengthError(d_im1', d_im2')
    /\ hz_pc' = IF hz_raised' = "none" THEN "d_second_body" ELSE "raised"
    /\ UNCHANGED <<hz_fn, hz_hazard_func, hz_im1, hz_im2, hz_stack, pdf_IM1,
                   p_second_occur, pdf_IM2, risk_im, like_im, hz_out>>
    /\ UNCHANGED notHz

\* im2_pdf: row i is 0 where PGD_median[i] == 0, else lognorm.pdf of row i of im2
Im2Pdf(a1, a2) ==
    LET pdfs(i) == [j \in 1..RowLen(a2) |->
                      IF PGDStandard(a1.data[i]) = 0 THEN 0
                      ELSE LognormPdf(Row(a2, i).data[j])]
        rows == Ravel([i \in 1..a2.shape[1] |-> pdfs(i)])
    IN  [shape |-> a2.shape, data |-> rows]

\* the rest of d_second_hazard_curve: PGD_median, im2_pdf, and the return
\* (im2_pdf[0] for a scalar im1) to the caller
DSecondBody ==
    /\ hz_pc = "d_second_body"
    /\ LET pdf == Im2Pdf(d_im1, d_im2)
           ret == IF scalar_input THEN Row(pdf, 1) ELSE pdf
       IN  IF hz_stack = <<>>
           THEN /\ hz_out' = ret /\ hz_pc' = "done"
                /\ UNCHANGED <<pdf_IM2, hz_stack>>
           ELSE /\ pdf_IM2' = ret /\ hz_pc' = "im2d_return"
                /\ hz_stack' = SubSeq(hz_stack, 1, Len(hz_stack) - 1)
                /\ UNCHANGED hz_out
    /\ UNCHANGED <<hz_fn, hz_hazard_func, hz_im1, hz_im2, d_im1, d_im2, scalar_input,
                   pdf_IM1, p_second_occur, risk_im, like_im, hz_raised>>
    /\ UNCHANGED notHz

\* im_likelihood = pdf_IM1 * p_second_occur * pdf_IM2; return im_likelihood
Im2dReturn ==
    /\ hz_pc = "im2d_return"
    /\ LET ret == NdMul(NdMul(pdf_IM1, p_second_occur), pdf_IM2)
       IN  IF hz_stack = <<>>
           THEN /\ hz_out' = ret /\ hz_pc' = "done"
                /\ UNCHANGED <<like_im, hz_stack>>
           ELSE /\ like_im' = ret /\ hz_pc' = "risk_return"
                /\ hz_stack' = SubSeq(hz_stack, 1, Len(hz_stack) - 1)
                /\ UNCHANGED hz_out
    /\ UNCHANGED <<hz_fn, hz_hazard_func, hz_im1, hz_im2, d_im1, d_im2, scalar_input,
                   pdf_IM1, p_second_occur, pdf_IM2, risk_im, hz_raised>>
    /\ UNCHANGED notHz

\* risks = risk_im * like_im; return risks
RiskReturn ==
    /\ hz_pc = "risk_return"
    /\ hz_out' = NdMul(risk_im, like_im)
    /\ hz_pc' = "done"
    /\ UNCHANGED <<hz_fn, hz_hazard_func, hz_im1, hz_im2, hz_stack, d_im1, d_im2,
                   scalar_input, pdf_IM1, p_second_occur, pdf_IM2, risk_im, like_im,
                   hz_raised>>
    /\ UNCHANGED notHz

---------------------------------------------------------------------------
(* Specifications: one per entry point *)

\* no engine call is in progress
EngineIdle ==
    /\ engine = "idle" /\ args = <<>> /\ pc = "idle" /\ n = 0
    /\ val = Unbound /\ err = Unbound
    /\ ims = <<>> /\ scalers = <<>>
    /\ im1 = <<>> /\ im2 = <<>> /\ w1 = <<>> /\ w2 = <<>>
    /\ likes = <<>> /\ cqs = <<>>
    /\ calls = <<>> /\ tried = <<>> /\ warned = <<>>
    /\ raised = "none" /\ result = "none"

\* no expected_consequence call is in progress
ECIdle ==
    /\ ec_pc = "idle" /\ im = Scalar(0)
    /\ fragility_funcs = None /\ cq_array = None
    /\ cdf_array = <<>> /\ prob_array = <<>> /\ risk = NoValue
    /\ evals = <<>> /\ ec_raised = "none"

\* no call into the cascading-hazard example is in progress
HazardIdle ==
    /\ hz_pc = "idle" /\ hz_fn = "none" /\ hz_hazard_func = "None"
    /\ hz_im1 = NoArray /\ hz_im2 = NoArray /\ hz_stack = <<>>
    /\ d_im1 = NoArray /\ d_im2 = NoArray /\ scalar_input = FALSE
    /\ pdf_IM1 = NoArray /\ p_second_occur = NoArray /\ pdf_IM2 = NoArray
    /\ risk_im = NoArray /\ like_im = NoArray
    /\ hz_out = NoArray /\ hz_raised = "none"

\* the caller has made no call yet
NoCall == [max_order |-> 0, n |-> 0, tried |-> <<>>, warned |-> <<>>, result |-> "none"]
FirstCall == earlier = NoCall

\* a call of generate_primary_event or generate_secondary_event
Init == InitEngine /\ ECIdle /\ HazardIdle /\ FirstCall

Next ==
    \/ CheckArgs
    \/ PrimaryIter
    \/ SecondaryIter
    \/ LoopElse
    \/ Break
    \/ Return

Spec == Init /\ [][Next]_vars

\* a call of expected_consequence
InitEC == InitExpectedConsequence /\ EngineIdle /\ HazardIdle /\ FirstCall

NextEC ==
    \/ ECCheck
    \/ ECEvaluate
    \/ ECDiff
    \/ ECReturn

SpecEC == InitEC /\ [][NextEC]_vars

\* a call of d_second_hazard_curve, im2d_likelihood or second_risk_integrand
InitHz == InitHazard /\ EngineIdle /\ ECIdle /\ FirstCall

NextHz ==
    \/ RiskEnter
    \/ Im2dEnter
    \/ DSecondCheck
    \/ DSecondBody
    \/ Im2dReturn
    \/ RiskReturn

SpecHz == InitHz /\ [][NextHz]_vars

\* the caller keeps what a returned call did and calls the same engine again
\* with another max_order, every other argument unchanged
CallAgain ==
    /\ pc = "done" /\ earlier = NoCall
    /\ earlier' = [max_order |-> args.max_order, n |-> n, tried |-> tried,
                   warned |-> warned, result |-> result]
    /\ \E m \in 0..MaxOrder : args' = [args EXCEPT !.max_order = m]
    /\ pc' = "start"
    /\ n' = 0
    /\ val' = Unbound /\ err' = Unbound
    /\ ims' = <<>> /\ scalers' = <<>>
    /\ im1' = <<>> /\ im2' = <<>> /\ w1' = <<>> /\ w2' = <<>>
    /\ likes' = <<>> /\ cqs' = <<>>
    /\ calls' = <<>> /\ tried' = <<>> /\ warned' = <<>>
    /\ raised' = "none" /\ result' = "none"
    /\ UNCHANGED <<engine, ecVars, hzVars>>

NextAgain ==
    \/ CheckArgs
    \/ PrimaryIter
    \/ SecondaryIter
    \/ LoopElse
    \/ Break
    \/ Return
    \/ CallAgain

\* two calls of an engine that differ in max_order only
SpecAgain == Init /\ [][NextAgain]_vars


---------------------------------------------------------------------------
(* Properties of the engines *)

\* the stopping rule as documented: error < tol OR error < rtol * |candidate|
DocStop(t) ==
    /\ t.err.k = "fin"
    /\ \/ args.tol.k = "inf"
       \/ t.err.v * args.tol.den < args.tol.num * VDen(engine)
       \/ t.err.v * args.rtol.den < args.rtol.num * Abs(t.val.v)

\* the candidate before entry i of tried (+inf before the first)
PrevCandidate(i) == IF i = 1 THEN PosInf ELSE tried[i - 1].val

\* C1: orders are tried one by one from min_order upward; each error is
\* |candidate - previous candidate| with +inf before the first order; the
\* engine leaves the loop by break exactly at the first order whose candidate
\* satisfies the documented rule, so min_order is never accepted and no order
\* above the accepted one is evaluated.
C1_FirstConvergingOrderAccepted ==
    /\ \A i \in 1..Len(tried) :
          /\ tried[i].order = args.min_order + i - 1
          /\ tried[i].err = FAbsDiff(tried[i].val, PrevCandidate(i))
          /\ i < Len(tried) => ~DocStop(tried[i])
    /\ tried # <<>> =>
          /\ tried[1].err = PosInf /\ ~DocStop(tried[1])
          /\ DocStop(tried[Len(tried)]) => pc # "loop"
          /\ pc = "break" =>
                /\ DocStop(tried[Len(tried)])
                /\ n = tried[Len(tried)].order
                /\ n > args.min_order

C1_Witness ==
    /\ engine = "secondary" /\ pc = "break"
    /\ n = args.min_order + 2
    /\ args.tol.k = "fin"

\* C2: once the loop is over, if every order min_order..max_order was
\* evaluated without satisfying the rule and max_order > min_order, exactly
\* one warning was emitted, carrying max_order and the final error, and the
\* call returns the candidate of order max_order; if the rule was satisfied at
\* some order (max_order included) no warning was emitted.
C2_WarningOnExhaustion ==
    LET exhausted == /\ Len(tried) = args.max_order - args.min_order + 1
                     /\ \A i \in 1..Len(tried) : ~DocStop(tried[i])
        satisfied == \E i \in 1..Len(tried) : DocStop(tried[i])
        last == tried[Len(tried)]
    IN  /\ pc \in {"return", "done"} /\ exhausted /\ args.max_order > args.min_order =>
              /\ warned = <<[order |-> args.max_order, err |-> last.err]>>
              /\ last.order = args.max_order
              /\ pc = "done" =>
                    /\ raised = "none"
                    /\ result.val = last.val /\ result.err = last.err
        /\ satisfied => warned = <<>>
        /\ pc \in {"start", "loop", "break"} => warned = <<>>

C2_Witness ==
    /\ pc = "done" /\ engine = "primary"
    /\ warned # <<>>
    /\ Len(tried) = 3

\* loop passes still possible, and the steps left after them
Variant ==
    LET span == IF args.max_order < args.min_order THEN 0
                ELSE args.max_order - args.min_order + 1
        left == IF tried = <<>> THEN span
                ELSE IF n > args.max_order THEN 0 ELSE args.max_order - n
    IN  CASE pc = "start"  -> span + 4
          [] pc = "loop"   -> left + 3
          [] pc = "break"  -> 2
          [] pc = "return" -> 1
          [] OTHER         -> 0

\* some step of the call can be taken
CanStep ==
    \/ pc \in {"start", "break", "return"}
    \/ AtLoopBody /\ engine \in {"primary", "secondary"}
    \/ AtLoopElse

\* C3: the call always terminates: every step lowers a natural-number
\* measure, and with 1 <= min_order <= max_order (and both functions
\* supplied, so that the loop is entered) a step can be taken until the call
\* has returned; the loop is left after at least 1 and at most
\* max_order - min_order + 1 passes, and no order above max_order is ever
\* evaluated.
C3_LoopTerminates ==
    [][/\ Variant' < Variant /\ Variant' >= 0
       /\ (/\ 1 <= args.min_order /\ args.min_order <= args.max_order
           /\ args.likelihood_func # "None" /\ args.consequence_func # "None")
          => /\ pc' # "raised"
             /\ pc' # "done" => CanStep'
             /\ pc' \in {"break", "return", "done"} => Len(tried') >= 1
             /\ Len(tried') <= args.max_order - args.min_order + 1
             /\ \A i \in 1..Len(tried') : tried'[i].order <= args.max_order
             /\ n' <= args.max_order]_vars

C3_Witness ==
    /\ pc = "done"
    /\ args.min_order < args.max_order
    /\ Len(tried) = args.max_order - args.min_order + 1

\* C4: a function whose vectorization flag is False is only ever invoked on
\* scalars (one intensity, or one intensity pair, per invocation).
C4_ScalarFunctionNeverGetsArray ==
    \A i \in 1..Len(calls) :
        LET flag == IF calls[i].fn = "likelihood_func"
                    THEN args.vec_likelihood ELSE args.vec_consequence
        IN  ~flag => \A p \in 1..Len(calls[i].arg) : calls[i].arg[p].kind = "scalar"

\* C7: with likelihood_func or consequence_func omitted the call ends in the
\* missing-argument error on its first step: no order is computed, no caller
\* function is invoked, nothing is returned and nothing is warned.
C7_MissingFunctionFailsFirst ==
    (args.likelihood_func = "None" \/ args.consequence_func = "None") =>
        /\ tried = <<>> /\ calls = <<>> /\ warned = <<>> /\ result = "none"
        /\ val = Unbound /\ n = 0
        /\ pc \in {"start", "raised"}
        /\ pc = "raised" =>
              raised = IF args.likelihood_func = "None"
                       THEN "AssertionError: Must provide likelihood_func"
                       ELSE "AssertionError: Must provide consequence_func"

C7_Witness ==
    /\ pc = "raised"
    /\ args.likelihood_func # "None" /\ args.consequence_func = "None"

\* C10: at every order tried the rescaled weights of the 1-D engine sum to
\* b - a, and in the 2-D engine the row products of the two weights sum to
\* (b - a)(d - c); the same holds of the weights returned.
C10_WeightSum ==
    LET rowsum(rows) == SumSeq([k \in 1..Len(rows) |-> rows[k][1] * rows[k][2]])
    IN  /\ (engine = "primary" /\ tried # <<>>) =>
              /\ Len(scalers) = n
              /\ SumSeq(scalers) = (args.b - args.a) * WDen2
        /\ (engine = "secondary" /\ tried # <<>>) =>
              /\ Len(w1) = n * n /\ Len(w2) = n * n
              /\ SumSeq([k \in 1..Len(w1) |-> w1[k] * w2[k]])
                    = (args.b - args.a) * (args.d - args.c) * WDen2 * WDen2
        /\ (engine = "primary" /\ pc = "done") =>
              SumSeq(result.scalers) = (args.b - args.a) * WDen2
        /\ (engine = "secondary" /\ pc = "done") =>
              rowsum(result.scalers)
                    = (args.b - args.a) * (args.d - args.c) * WDen2 * WDen2

C10_Witness ==
    /\ engine = "secondary" /\ pc = "done"
    /\ n = 3
    /\ args.b - args.a = 2 /\ args.d - args.c = 2

---------------------------------------------------------------------------
(* Properties of expected_consequence *)

\* CDF[k] at intensity level x, for k = 1..K, and 0 past the last curve
Cdf(k, x) ==
    IF k <= Len(fragility_funcs.v) THEN fragility_funcs.v[k][x] ELSE 0

\* the four curves map into [0, 1] and are non-decreasing in intensity
FourMonotoneCurves ==
    /\ ~fragility_funcs.none
    /\ Len(fragility_funcs.v) = NDS
    /\ \A k \in 1..NDS :
          /\ \A x \in 0..MaxIM : 0 <= Cdf(k, x) /\ Cdf(k, x) <= PDen
          /\ \A x \in 0..(MaxIM - 1) : Cdf(k, x) <= Cdf(k, x + 1)

\* the probabilities computed for sample j are a sub-probability mass
ValidMass(j) ==
    /\ \A k \in 1..NDS : 0 <= prob_array[k].v[j] /\ prob_array[k].v[j] <= PDen
    /\ SumSeq([k \in 1..NDS |-> prob_array[k].v[j]]) <= PDen

\* C5 as claimed: for 4 curves into [0, 1], each non-decreasing in intensity,
\* the four per-state probabilities lie in [0, 1] and sum to at most 1.
C5_AsClaimed ==
    (ec_pc \in {"dot", "done"} /\ FourMonotoneCurves) =>
        \A j \in 1..Len(im.v) : ValidMass(j)

\* C5, amended: for 4 curves into [0, 1], each non-decreasing in intensity
\* and ordered by severity at the sampled intensity (CDF[k] >= CDF[k+1]), the
\* four per-state probabilities lie in [0, 1] and sum to at most 1.
C5_OrderedCurvesGiveValidMass ==
    (ec_pc \in {"dot", "done"} /\ FourMonotoneCurves) =>
        \A j \in 1..Len(im.v) :
            (\A k \in 1..(NDS - 1) : Cdf(k, im.v[j]) >= Cdf(k + 1, im.v[j]))
                => ValidMass(j)

C5_Witness ==
    /\ ec_pc = "done" /\ FourMonotoneCurves
    /\ im.kind = "array" /\ Len(im.v) = 2
    /\ \A j \in 1..2 : \A k \in 1..(NDS - 1) : Cdf(k, im.v[j]) >= Cdf(k + 1, im.v[j])
    /\ prob_array[1].v[1] > 0 /\ prob_array[NDS].v[1] > 0
    /\ prob_array[2].v[2] > 0

\* C6: with K >= 1 curves and K consequences the value returned has the
\* shape of im and holds, per sample, the sum over k of
\* (CDF[k] - CDF[k+1]) * consequence[k], CDF past the last curve being 0.
C6_ExpectedConsequenceValue ==
    (ec_pc = "done" /\ Len(fragility_funcs.v) >= 1) =>
        /\ ec_raised = "none"
        /\ risk.kind = im.kind
        /\ Len(risk.v) = Len(im.v)
        /\ \A j \in 1..Len(im.v) :
              risk.v[j] = SumSeq([k \in 1..Len(fragility_funcs.v) |->
                                    (Cdf(k, im.v[j]) - Cdf(k + 1, im.v[j])) * cq_array.v[k]])

C6_Witness ==
    /\ ec_pc = "done" /\ Len(fragility_funcs.v) = NDS
    /\ im.kind = "array" /\ Len(im.v) = 2
    /\ risk.v[1] > 0 /\ risk.v[2] > risk.v[1]

\* the documented class of an error of expected_consequence
ErrorClass(e) ==
    CASE e = "AssertionError: Must provide a list of fragility functions"
            -> "missing-argument"
      [] e = "AssertionError: fragility_funcs and cq_array must have the same length"
            -> "length-mismatch"
      [] e = "none" -> "none"
      [] OTHER -> "other"

\* C8: once the arguments are checked, an omitted fragility_funcs or cq_array
\* has ended the call in a missing-argument error and differing lengths have
\* ended it in a length-mismatch error, in both cases with no fragility curve
\* evaluated and no value returned.
C8_ArgumentErrors ==
    LET omitted == fragility_funcs.none \/ cq_array.none
        differ == ~omitted /\ Len(fragility_funcs.v) # Len(cq_array.v)
    IN  ec_pc # "start" =>
            /\ omitted => /\ ec_pc = "raised"
                          /\ ErrorClass(ec_raised) = "missing-argument"
                          /\ evals = <<>> /\ risk = NoValue
            /\ differ => /\ ec_pc = "raised"
                         /\ ErrorClass(ec_raised) = "length-mismatch"
                         /\ evals = <<>> /\ risk = NoValue


---------------------------------------------------------------------------
(* Properties of the cascading-hazard functions *)

\* the number of intensity samples an argument holds: a scalar is one sample
NSamples(a) == IF a.shape = <<>> THEN 1 ELSE a.shape[1]

\* C9: in the 2-D case, whenever the primary and secondary intensity
\* arguments of second_risk_integrand, im2d_likelihood or
\* d_second_hazard_curve differ in length, the call ends in an error and
\* returns no value, for every combination of scalar and array arguments.
C9_LengthMismatchRaises ==
    (hz_pc # "idle" /\ NSamples(hz_im1) # NSamples(hz_im2))
        => (hz_pc # "done" /\ hz_out = NoArray)

---------------------------------------------------------------------------
(* Properties of two calls that differ in max_order only *)

\* the earlier call satisfied the stopping rule at its last order
EarlierConverged ==
    /\ earlier # NoCall /\ earlier.tried # <<>>
    /\ DocStop(earlier.tried[Len(earlier.tried)])

\* C11: with all other inputs fixed, if a call with max_order = M satisfied
\* the stopping rule at order n* <= M, then a call with any max_order
\* M' >= n* evaluates the same orders, stops at n*, and returns the same risk
\* value and the same error, with no warning: the reported error does not
\* change (in particular does not grow) with max_order beyond n*.
C11_MaxOrderBeyondConvergence ==
    (pc = "done" /\ EarlierConverged /\ args.max_order >= earlier.n) =>
        /\ earlier.n <= earlier.max_order
        /\ n = earlier.n
        /\ tried = earlier.tried
        /\ result = earlier.result
        /\ result.val = earlier.result.val /\ result.err = earlier.result.err
        /\ warned = <<>> /\ earlier.warned = <<>>
        /\ raised = "none"

C11_Witness ==
    /\ pc = "done" /\ EarlierConverged
    /\ earlier.n = earlier.max_order
    /\ args.max_order > earlier.max_order
    /\ engine = "secondary" /\ args.tol.k = "fin"
    /\ result.err.k = "fin" /\ result.err.v > 0

---------------------------------------------------------------------------
(* Properties of the grid of generate_secondary_event *)

\* the n-point rule of the current order, mapped to each axis
Axis1 == MapPoints(args.a, args.b, roots_legendre(n).x)
Axis2 == MapPoints(args.c, args.d, roots_legendre(n).x)
AxisW1 == ScaleWeights(args.a, args.b, roots_legendre(n).w)
AxisW2 == ScaleWeights(args.c, args.d, roots_legendre(n).w)

\* the rows of the grid that hold primary point i and secondary point j
RowsOf(i, j) == {k \in 1..Len(im1) : im1[k] = Axis1[i] /\ im2[k] = Axis2[j]}

\* C12: at every order n of generate_secondary_event the same n-point rule
\* is used on both axes and the grid has n*n rows holding every index pair
\* (i, j) exactly once; a row's weights belong to the row's points (primary
\* weight i with primary point i, secondary weight j with secondary point j),
\* also in the returned sample-pair and weight-pair matrices; the consequence
\* function is evaluated on the secondary intensities alone, the likelihood
\* on the pairs, and the candidate is the sum over the rows of
\* primary weight * secondary weight * likelihood * consequence.
C12_TensorGrid ==
    (engine = "secondary" /\ tried # <<>>) =>
        /\ Len(Axis1) = n /\ Len(Axis2) = n
        /\ \A x \in {im1, im2, w1, w2, likes, cqs} : Len(x) = n * n
        /\ \A i, j \in 1..n : Cardinality(RowsOf(i, j)) = 1
        /\ \A k \in 1..(n * n) : \E i, j \in 1..n :
              /\ k \in RowsOf(i, j)
              /\ w1[k] = AxisW1[i] /\ w2[k] = AxisW2[j]
        /\ \A k \in 1..(n * n) :
              /\ cqs[k] = Consequence(args.consequence_func, im2[k])
              /\ likes[k] = Likelihood2(args.likelihood_func, im1[k], im2[k])
        /\ calls[Len(calls) - 1] = Call("consequence_func", <<Array(im2)>>)
        /\ calls[Len(calls)] = Call("likelihood_func", <<Array(im1), Array(im2)>>)
        /\ val = Fin(SumSeq([k \in 1..(n * n) |-> w1[k] * w2[k] * likes[k] * cqs[k]]))
        /\ pc = "done" =>
              \A k \in 1..(n * n) :
                  /\ result.ims[k] = <<im1[k], im2[k]>>
                  /\ result.scalers[k] = <<w1[k], w2[k]>>

C12_Witness ==
    /\ engine = "secondary" /\ pc = "done" /\ n = 3
    /\ <<args.a, args.b>> # <<args.c, args.d>>
    /\ args.consequence_func = "linear" /\ args.likelihood_func = "kink"
    /\ Len(result.ims) = 9
    /\ result.scalers[1] # result.scalers[2]

---------------------------------------------------------------------------
(* Properties of the returned discretization *)

\* the last order evaluated, and the points and weights of its rule
LastTried == tried[Len(tried)]
OrderPoints(lo, hi, order) == MapPoints(lo, hi, roots_legendre(order).x)
OrderWeights(lo, hi, order) == ScaleWeights(lo, hi, roots_legendre(order).w)

\* the weight of each returned row (in the 2-D engine w1 * w2)
ReturnedWeights ==
    IF engine = "primary" THEN result.scalers
    ELSE [k \in 1..Len(result.scalers) |-> result.scalers[k][1] * result.scalers[k][2]]

\* the returned points, weights, likelihoods and consequences are those of
\* order `order`, and the returned value is their weighted sum
ReturnedFromOrder(order) ==
    LET rows == IF engine = "primary" THEN order ELSE order * order
    IN  /\ Len(result.ims) = rows /\ Len(result.scalers) = rows
        /\ Len(result.likes) = rows /\ Len(result.cqs) = rows
        /\ IF engine = "primary"
           THEN /\ result.ims = OrderPoints(args.a, args.b, order)
                /\ result.scalers = OrderWeights(args.a, args.b, order)
                /\ \A k \in 1..rows :
                      /\ result.likes[k] = Likelihood1(args.likelihood_func, result.ims[k])
                      /\ result.cqs[k] = Consequence(args.consequence_func, result.ims[k])
           ELSE \A k \in 1..rows :
                   /\ \E i \in 1..order :
                         /\ result.ims[k][1] = OrderPoints(args.a, args.b, order)[i]
                         /\ result.scalers[k][1] = OrderWeights(args.a, args.b, order)[i]
                   /\ \E j \in 1..order :
                         /\ result.ims[k][2] = OrderPoints(args.c, args.d, order)[j]
                         /\ result.scalers[k][2] = OrderWeights(args.c, args.d, order)[j]
                   /\ result.likes[k] = Likelihood2(args.likelihood_func,
                                                    result.ims[k][1], result.ims[k][2])
                   /\ result.cqs[k] = Consequence(args.consequence_func, result.ims[k][2])
        /\ result.val = LastTried.val
        /\ result.val = Fin(risk_from_primary_scenarios(result.likes, result.cqs,
                                                        ReturnedWeights))

\* C13 as stated: whenever a call returns, the returned items are those of
\* the last evaluated order n, the value is recomputable from them, and the
\* returned error is |value - candidate of order n-1|.
C13_AsClaimed ==
    pc = "done" =>
        /\ n = LastTried.order /\ ReturnedFromOrder(n)
        /\ \E i \in 1..Len(tried) :
              /\ tried[i].order = n - 1
              /\ result.err = FAbsDiff(result.val, tried[i].val)

\* C13: whenever a call returns (converged or not), the returned items are
\* those of the last evaluated order n (n entries, n*n rows in the 2-D
\* engine), the returned value is the sum over them of
\* weight * likelihood * consequence, and the returned error is
\* |value - candidate of order n-1| when n > min_order and +infinity when
\* n = min_order, where no order n-1 was evaluated.
C13_ReturnedFromLastOrder ==
    pc = "done" =>
        /\ n = LastTried.order /\ ReturnedFromOrder(n)
        /\ result.err = LastTried.err
        /\ IF n > args.min_order
           THEN /\ tried[Len(tried) - 1].order = n - 1
                /\ result.err = FAbsDiff(result.val, tried[Len(tried) - 1].val)
           ELSE /\ Len(tried) = 1
                /\ result.err = PosInf

C13_Witness ==
    /\ pc = "done" /\ engine = "secondary"
    /\ n = args.min_order + 1
    /\ warned # <<>>
    /\ result.err.k = "fin" /\ result.err.v > 0
    /\ result.val.v > 0

---------------------------------------------------------------------------
(* Properties of a call with a single order *)

\* C14: when min_order == max_order (and both functions are supplied) the
\* engine evaluates exactly one order, never leaves the loop by break, and
\* returns that order's candidate with an error of +infinity and without a
\* warning, whatever tol and rtol are: the stopping rule is not satisfied on
\* the single pass and the missing convergence is not reported.
C14_SingleOrder ==
    (args.min_order = args.max_order /\ MissingArgument(args) = "none") =>
        /\ Len(tried) <= 1
        /\ warned = <<>>
        /\ pc # "break" /\ raised = "none"
        /\ pc \in {"return", "done"} =>
              /\ Len(tried) = 1
              /\ tried[1].order = args.min_order
              /\ n = args.min_order
              /\ err = PosInf
              /\ ~DocStop(tried[1])
        /\ pc = "done" =>
              /\ result.val = tried[1].val
              /\ result.err = PosInf

C14_Witness ==
    /\ pc = "done" /\ engine = "primary"
    /\ args.min_order = 2 /\ args.max_order = 2
    /\ args.tol.k = "inf" /\ args.rtol.num > 0
    /\ result.val.v > 0
    /\ result.err = PosInf /\ warned = <<>>

====
